---- MODULE Spec2Model ----
(***************************************************************************)
(* The shopping cart of advance_redux: the cart slice (replaceCart,        *)
(* addItem, removeItem), the App component's two effects (initial load and *)
(* sync-on-change, guarded by the module-level isInitial), and the two     *)
(* thunks fetchcartData and sendCartData with their requests to the remote *)
(* document.                                                               *)
(*                                                                         *)
(* A store dispatch, the synchronous re-render it causes and the effects   *)
(* of that render form one step: react-redux re-renders a subscriber       *)
(* synchronously on a store update, and an effect runs when one of its     *)
(* dependencies (here the store.cart reference) has changed.  A thunk runs *)
(* synchronously up to its first await, so the pending notification and    *)
(* the issue of the PUT belong to the step that runs the effect.           *)
(***************************************************************************)
EXTENDS Integers, Sequences, FiniteSets, TLC

\* ------------------------------------------------------------------ bounds
\* user clicks (addItem / removeItem dispatches) in one run
MaxOps == 2

\* ------------------------------------------------------- program constants
\* DUMMY_PRODUCTS prices
PriceP1 == 6
PriceP2 == 10

Ids == {"p1", "p2"}

\* The payloads the components dispatch with addItem: the two products of the
\* shop.  The quantity field is what CartItem passes along; the reducer does
\* not read it.
Payloads ==
  { [id |-> "p1", price |-> PriceP1, title |-> "Product 1", quantity |-> 1],
    [id |-> "p2", price |-> PriceP2, title |-> "Product 2", quantity |-> 3] }

VARIABLES
  cart,          \* store.cart: [items, totalQuantity, changed]
  notification,  \* store.ui.notification: [status, title, message]
  isInitial,     \* the module-level flag of App
  mounted,       \* App has mounted (its effects have run once)
  loadSt,        \* initial read: "idle", "sent", "served", "replaced", "failed"
  loadResp,      \* its response: [kind, body]
  loadTrace,     \* what the initial-load flow did, in order
  sends,         \* the sync attempts, in the order they were started
  remote,        \* the remote document
  lastAction,    \* the last cart action dispatched: [type, id, existed]
  dispatched,    \* number of user dispatches so far
  everMutated,   \* an addItem or effective removeItem has been committed
  mutatedSince   \* ... since the last successful replaceCart or write

vars == <<cart, notification, isInitial, mounted, loadSt, loadResp, loadTrace,
          sends, remote, lastAction, dispatched, everMutated, mutatedSince>>

\* ------------------------------------------------------------- cart slice
initialState == [items |-> <<>>, totalQuantity |-> 0, changed |-> FALSE]

\* state.items.find((i) => i.id === id): index of the first match, 0 if none
FindIndex(items, id) ==
  IF \E k \in 1..Len(items) : items[k].id = id
    THEN CHOOSE k \in 1..Len(items) :
           /\ items[k].id = id
           /\ \A j \in 1..(k - 1) : items[j].id # id
    ELSE 0

\* replaceCart as it would be if it also reset the flag
replaceCartClearsChanged(state, payload) ==
  [state EXCEPT !.totalQuantity = payload.totalQuantity,
                !.items = payload.items,
                !.changed = FALSE]

\* replaceCart as it would be if it marked the cart changed like the mutations
replaceCartSetsChanged(state, payload) ==
  [state EXCEPT !.totalQuantity = payload.totalQuantity,
                !.items = payload.items,
                !.changed = TRUE]

replaceCart(state, payload) ==
  [state EXCEPT !.totalQuantity = payload.totalQuantity,
                !.items = payload.items]

\* addItem taking the new line's quantity from the payload
addItemUsesPayloadQuantity(state, item) ==
  LET k == FindIndex(state.items, item.id) IN
  [ totalQuantity |-> state.totalQuantity + 1,
    changed |-> TRUE,
    items |->
      IF k = 0
        THEN Append(state.items,
                    [id |-> item.id, price |-> item.price,
                     quantity |-> item.quantity,
                     totalPrice |-> item.price, name |-> item.title])
        ELSE [state.items EXCEPT ![k].quantity = @ + 1,
                                 ![k].totalPrice = @ + item.price] ]

addItem(state, item) ==
  LET k == FindIndex(state.items, item.id) IN
  [ totalQuantity |-> state.totalQuantity + 1,
    changed |-> TRUE,
    items |->
      IF k = 0
        THEN Append(state.items,
                    [id |-> item.id, price |-> item.price, quantity |-> 1,
                     totalPrice |-> item.price, name |-> item.title])
        ELSE [state.items EXCEPT ![k].quantity = @ + 1,
                                 ![k].totalPrice = @ + item.price] ]

\* the filter of removeItem with its test inverted
KeepOthersInverted(items, itemId) ==
  LET Same(i) == i.id = itemId IN SelectSeq(items, Same)

KeepOthers(items, itemId) ==
  LET Other(i) == i.id # itemId IN SelectSeq(items, Other)

\* removeItem without its state.totalQuantity--
removeItemKeepsTotal(state, itemId) ==
  LET k == FindIndex(state.items, itemId) IN
  IF k = 0
    THEN state
    ELSE [ totalQuantity |-> state.totalQuantity,
           changed |-> TRUE,
           items |->
             IF state.items[k].quantity = 1
               THEN KeepOthers(state.items, itemId)
               ELSE [state.items EXCEPT ![k].quantity = @ - 1,
                                        ![k].totalPrice = @ - state.items[k].price] ]

\* removeItem without its quantity === 1 branch: the line is always decremented
removeItemNeverDeletes(state, itemId) ==
  LET k == FindIndex(state.items, itemId) IN
  IF k = 0
    THEN state
    ELSE [ totalQuantity |-> state.totalQuantity - 1,
           changed |-> TRUE,
           items |-> [state.items EXCEPT ![k].quantity = @ - 1,
                                         ![k].totalPrice = @ - state.items[k].price] ]

\* removeItem without its existingItem.totalPrice -= existingItem.price
removeItemKeepsTotalPrice(state, itemId) ==
  LET k == FindIndex(state.items, itemId) IN
  IF k = 0
    THEN state
    ELSE [ totalQuantity |-> state.totalQuantity - 1,
           changed |-> TRUE,
           items |->
             IF state.items[k].quantity = 1
               THEN KeepOthers(state.items, itemId)
               ELSE [state.items EXCEPT ![k].quantity = @ - 1] ]

\* removeItem without its early return: the counters move before the lookup
\* result is used
removeItemUnguarded(state, itemId) ==
  LET k == FindIndex(state.items, itemId) IN
  [ totalQuantity |-> state.totalQuantity - 1,
    changed |-> TRUE,
    items |->
      IF k = 0
        THEN state.items
        ELSE IF state.items[k].quantity = 1
               THEN KeepOthers(state.items, itemId)
               ELSE [state.items EXCEPT ![k].quantity = @ - 1,
                                        ![k].totalPrice = @ - state.items[k].price] ]

removeItem(state, itemId) ==
  LET k == FindIndex(state.items, itemId) IN
  IF k = 0
    THEN state
    ELSE [ totalQuantity |-> state.totalQuantity - 1,
           changed |-> TRUE,
           items |->
             IF state.items[k].quantity = 1
               THEN KeepOthers(state.items, itemId)
               ELSE [state.items EXCEPT ![k].quantity = @ - 1,
                                        ![k].totalPrice = @ - state.items[k].price] ]

\* --------------------------------------------------------------- ui slice
NoNotification == [status |-> "absent", title |-> "", message |-> ""]

showNotification(payload) == payload

PendingNote ==
  [status |-> "pending", title |-> "Sending request..",
   message |-> "Sending cart data!"]
SuccessNote ==
  [status |-> "success", title |-> "Success!",
   message |-> "Cart data sent successfully"]
SendErrorNote ==
  [status |-> "error", title |-> "Error!",
   message |-> "Sending cart data failed"]
FetchErrorNote ==
  [status |-> "error", title |-> "Error!",
   message |-> "Fetching cart data failed"]

\* ------------------------------------------------------- remote documents
\* A JSON document of the remote store: null, or an object with totalQuantity
\* and, unless the key is missing, items.
NullDoc ==
  [isNull |-> TRUE, hasItems |-> FALSE, items |-> <<>>, totalQuantity |-> 0]
Doc(items, n) ==
  [isNull |-> FALSE, hasItems |-> TRUE, items |-> items, totalQuantity |-> n]
NoItemsDoc(n) ==
  [isNull |-> FALSE, hasItems |-> FALSE, items |-> <<>>, totalQuantity |-> n]

Line(id, price, q, name) ==
  [id |-> id, price |-> price, quantity |-> q, totalPrice |-> price * q,
   name |-> name]

\* What the remote store may hold when the application starts: nothing, a
\* cart without items, or a cart saved when p2 had another price and title.
InitialDocs ==
  { NullDoc,
    NoItemsDoc(0),
    Doc(<<Line("p2", PriceP1, 2, "Product 2 (old)")>>, 2) }

\* JSON.stringify(cart): the whole slice, changed included
RequestBodyWholeCart(c) ==
  [isNull |-> FALSE, hasItems |-> TRUE, items |-> c.items,
   totalQuantity |-> c.totalQuantity, changed |-> c.changed]

\* JSON.stringify({items: cart.items, totalQuantity: cart.totalQuantity})
RequestBody(c) == Doc(c.items, c.totalQuantity)

\* cartData.items || []
ItemsOrEmpty(cartData) == IF cartData.hasItems THEN cartData.items ELSE <<>>

NoResp == [kind |-> "none", body |-> NullDoc]

\* ------------------------------------------------------------ sendCartData
\* The synchronous part of the thunk: the pending notification, then the PUT.
\* sendCartData issuing its PUT before the pending notification
sendCartDataPutFirst(c, fx) ==
  LET noted == [fx EXCEPT !.notification = showNotification(PendingNote)] IN
  [noted EXCEPT !.sends =
     Append(@, [body |-> RequestBody(c), st |-> "sent", resp |-> "none",
                trace |-> <<"PUT", "pending">>])]

sendCartData(c, fx) ==
  LET noted == [fx EXCEPT !.notification = showNotification(PendingNote)] IN
  [noted EXCEPT !.sends =
     Append(@, [body |-> RequestBody(c), st |-> "sent", resp |-> "none",
                trace |-> <<"pending", "PUT">>])]

\* the sync effect without its cart.changed test
SyncEffectAlwaysSends(c, fx) ==
  IF fx.isInitial
    THEN [fx EXCEPT !.isInitial = FALSE]
    ELSE sendCartData(c, fx)

\* The sync effect of App, run for the cart `c` of the render.
\* fx is [isInitial, notification, sends].
SyncEffect(c, fx) ==
  IF fx.isInitial
    THEN [fx EXCEPT !.isInitial = FALSE]
    ELSE IF c.changed THEN sendCartData(c, fx) ELSE fx

Fx == [isInitial |-> isInitial, notification |-> notification, sends |-> sends]

\* A cart action has been reduced to newCart; the effect depends on [cart], so
\* it runs when the reducer produced a new state object.
Commit(newCart, newRef) ==
  LET fx == IF newRef THEN SyncEffect(newCart, Fx) ELSE Fx IN
  /\ cart' = newCart
  /\ isInitial' = fx.isInitial
  /\ notification' = fx.notification
  /\ sends' = fx.sends

\* ------------------------------------------------------------------ actions
Init ==
  /\ cart = initialState
  /\ notification = NoNotification
  /\ isInitial = TRUE
  /\ mounted = FALSE
  /\ loadSt = "idle"
  /\ loadResp = NoResp
  /\ loadTrace = <<>>
  /\ sends = <<>>
  /\ remote \in InitialDocs
  /\ lastAction = [type |-> "none", id |-> "", existed |-> FALSE]
  /\ dispatched = 0
  /\ everMutated = FALSE
  /\ mutatedSince = FALSE

\* App mounting without a first run of the sync effect
MountSkipsSyncEffect ==
  /\ ~mounted
  /\ mounted' = TRUE
  /\ loadSt' = "sent"
  /\ loadTrace' = <<"GET">>
  /\ Commit(cart, FALSE)
  /\ UNCHANGED <<loadResp, remote, lastAction, dispatched, everMutated,
                 mutatedSince>>

\* App mounts: the first effect dispatches fetchcartData (the GET is issued),
\* the second effect runs for the first time.
Mount ==
  /\ ~mounted
  /\ mounted' = TRUE
  /\ loadSt' = "sent"
  /\ loadTrace' = <<"GET">>
  /\ Commit(cart, TRUE)
  /\ UNCHANGED <<loadResp, remote, lastAction, dispatched, everMutated,
                 mutatedSince>>

\* A click on an add button: dispatch(cartActions.addItem(payload)).
AddItemHandler ==
  /\ mounted
  /\ dispatched < MaxOps
  /\ \E item \in Payloads :
       /\ lastAction' = [type |-> "addItem", id |-> item.id,
                         existed |-> FindIndex(cart.items, item.id) # 0]
       /\ Commit(addItem(cart, item), TRUE)
  /\ dispatched' = dispatched + 1
  /\ everMutated' = TRUE
  /\ mutatedSince' = TRUE
  /\ UNCHANGED <<mounted, loadSt, loadResp, loadTrace, remote>>

\* A click on a remove button: dispatch(cartActions.removeItem(id)).
RemoveItemHandler ==
  /\ mounted
  /\ dispatched < MaxOps
  /\ \E id \in Ids :
       LET found == FindIndex(cart.items, id) # 0 IN
       /\ lastAction' = [type |-> "removeItem", id |-> id, existed |-> found]
       /\ Commit(removeItem(cart, id), found)
       /\ everMutated' = (everMutated \/ found)
       /\ mutatedSince' = (mutatedSince \/ found)
  /\ dispatched' = dispatched + 1
  /\ UNCHANGED <<mounted, loadSt, loadResp, loadTrace, remote>>

\* The remote store answers the GET with its document.
ServeRead ==
  /\ loadSt = "sent"
  /\ loadSt' = "served"
  /\ loadResp' = [kind |-> "ok", body |-> remote]
  /\ UNCHANGED <<cart, notification, isInitial, mounted, loadTrace, sends,
                 remote, lastAction, dispatched, everMutated, mutatedSince>>

\* The try block of fetchcartData once fetchData has returned cartData.
LoadTry(cartData) ==
  LET payload == [items |-> ItemsOrEmpty(cartData),
                  totalQuantity |-> cartData.totalQuantity]
  IN /\ loadSt' = "replaced"
     /\ loadTrace' = Append(loadTrace, "replaceCart")
     /\ lastAction' = [type |-> "replaceCart", id |-> "", existed |-> FALSE]
     /\ Commit(replaceCart(cart, payload), TRUE)
     /\ mutatedSince' = FALSE

\* The catch block of fetchcartData as it would be if it reset the cart
LoadCatchResetsCart ==
  /\ loadSt' = "failed"
  /\ loadTrace' = Append(loadTrace, "error")
  /\ notification' = showNotification(FetchErrorNote)
  /\ cart' = initialState
  /\ UNCHANGED <<isInitial, sends, lastAction, mutatedSince>>

\* The catch block of fetchcartData.
LoadCatch ==
  /\ loadSt' = "failed"
  /\ loadTrace' = Append(loadTrace, "error")
  /\ notification' = showNotification(FetchErrorNote)
  /\ UNCHANGED <<cart, isInitial, sends, lastAction, mutatedSince>>

\* fetchcartData resumes with an ok response.  Reading cartData.items of a
\* null document throws inside the try block.
fetchcartData ==
  /\ loadSt = "served"
  /\ IF ~loadResp.body.isNull
       THEN LoadTry(loadResp.body)
       ELSE LoadCatch
  /\ UNCHANGED <<mounted, loadResp, remote, dispatched, everMutated>>

\* The GET fails: fetch throws, or the response is not ok and fetchData throws
\* ("failed" stands for both).  fetchcartData resumes in its catch block.
fetchcartDataFails ==
  /\ loadSt = "sent"
  /\ loadResp' = [kind |-> "failed", body |-> NullDoc]
  /\ LoadCatch
  /\ UNCHANGED <<mounted, remote, dispatched, everMutated>>

\* The remote store answers the PUT of attempt i: it replaces its document.
ServeWrite(i) ==
  /\ sends[i].st = "sent"
  /\ sends' = [sends EXCEPT ![i].st = "served", ![i].resp = "ok"]
  /\ remote' = sends[i].body
  /\ UNCHANGED <<cart, notification, isInitial, mounted, loadSt, loadResp,
                 loadTrace, lastAction, dispatched, everMutated, mutatedSince>>

\* the try block of sendCartData as it would be if the success notification
\* made the sync effect run again (an effect depending on the whole store)
SendTryRerunsEffect(i) ==
  LET shown == [isInitial |-> isInitial,
                notification |-> showNotification(SuccessNote),
                sends |-> [sends EXCEPT ![i].st = "done",
                                        ![i].trace = Append(@, "success")]]
      fx == SyncEffect(cart, shown)
  IN /\ sends[i].st = "served"
     /\ notification' = fx.notification
     /\ sends' = fx.sends
     /\ mutatedSince' = FALSE
     /\ UNCHANGED <<cart, isInitial, mounted, loadSt, loadResp, loadTrace,
                    remote, lastAction, dispatched, everMutated>>

\* the try block of sendCartData as it would be if it dismissed the
\* notification instead of reporting success
SendTryClearsNotification(i) ==
  /\ sends[i].st = "served"
  /\ notification' = NoNotification
  /\ sends' = [sends EXCEPT ![i].st = "done", ![i].trace = Append(@, "success")]
  /\ mutatedSince' = FALSE
  /\ UNCHANGED <<cart, isInitial, mounted, loadSt, loadResp, loadTrace,
                 remote, lastAction, dispatched, everMutated>>

\* sendCartData of attempt i resumes after sendRequest has returned.
SendTry(i) ==
  /\ sends[i].st = "served"
  /\ notification' = showNotification(SuccessNote)
  /\ sends' = [sends EXCEPT ![i].st = "done", ![i].trace = Append(@, "success")]
  /\ mutatedSince' = FALSE
  /\ UNCHANGED <<cart, isInitial, mounted, loadSt, loadResp, loadTrace,
                 remote, lastAction, dispatched, everMutated>>

\* the catch block of sendCartData as it would be if it sent the cart again
SendCatchRetries(i) ==
  /\ sends[i].st = "sent"
  /\ notification' = showNotification(SendErrorNote)
  /\ sends' = Append([sends EXCEPT ![i].st = "done", ![i].resp = "failed",
                                   ![i].trace = Append(@, "error")],
                     [body |-> sends[i].body, st |-> "sent", resp |-> "none",
                      trace |-> <<"pending", "PUT">>])
  /\ UNCHANGED <<cart, isInitial, mounted, loadSt, loadResp, loadTrace,
                 remote, lastAction, dispatched, everMutated, mutatedSince>>

\* The PUT of attempt i fails: fetch throws, or the response is not ok and
\* sendRequest throws ("failed" stands for both; the document is not
\* replaced).  sendCartData resumes in its catch block.
SendCatch(i) ==
  /\ sends[i].st = "sent"
  /\ notification' = showNotification(SendErrorNote)
  /\ sends' = [sends EXCEPT ![i].st = "done", ![i].resp = "failed",
                            ![i].trace = Append(@, "error")]
  /\ UNCHANGED <<cart, isInitial, mounted, loadSt, loadResp, loadTrace,
                 remote, lastAction, dispatched, everMutated, mutatedSince>>

Next ==
  \/ Mount
  \/ AddItemHandler
  \/ RemoveItemHandler
  \/ ServeRead
  \/ fetchcartData
  \/ fetchcartDataFails
  \/ \E i \in 1..Len(sends) : ServeWrite(i)
  \/ \E i \in 1..Len(sends) : SendTry(i)
  \/ \E i \in 1..Len(sends) : SendCatch(i)

Spec == Init /\ [][Next]_vars

\* the attempts a run can start: one per user dispatch and one for replaceCart
MaxSends == MaxOps + 1

\* A request in flight is answered or fails, and a continuation whose
\* response has arrived runs.
Progress ==
  \/ ServeRead
  \/ fetchcartData
  \/ fetchcartDataFails
  \/ \E i \in 1..Len(sends) : ServeWrite(i) \/ SendTry(i) \/ SendCatch(i)

\* Every request eventually completes and every continuation eventually runs.
FairSpec == Spec /\ WF_vars(Mount) /\ WF_vars(Progress)

\* --------------------------------------------------------------- helpers
RECURSIVE SumQuantity(_)
SumQuantity(items) ==
  IF items = <<>> THEN 0 ELSE Head(items).quantity + SumQuantity(Tail(items))

HasLine(items, id) == \E k \in 1..Len(items) : items[k].id = id

\* Attempt i has completed and its last notification was success or error.
AttemptEnded(i) ==
  /\ sends[i].st = "done"
  /\ sends[i].trace[Len(sends[i].trace)] \in {"success", "error"}

\* This step is the initial load's replaceCart.
ReplaceStep == loadSt = "served" /\ loadSt' = "replaced"

\* This step commits an addItem, or a removeItem that finds its line.
MutationStep ==
  /\ dispatched' = dispatched + 1
  /\ \/ lastAction'.type = "addItem"
     \/ lastAction'.type = "removeItem" /\ lastAction'.existed

\* ------------------------------------------------------------------ claims

C2_TotalPriceIsPriceTimesQuantity ==
  \A k \in 1..Len(cart.items) :
    cart.items[k].totalPrice = cart.items[k].price * cart.items[k].quantity

\* C3 as stated: changed is true iff a mutation has been committed since the
\* last successful replaceCart or the last successful write.
C3_ChangedIsDirtyFlag == cart.changed <=> mutatedSince

\* C3 amended: changed is true iff an addItem or an effective removeItem has
\* been committed since the application started; nothing clears it.
C3_ChangedIsEverMutated == cart.changed <=> everMutated

C3_Witness ==
  /\ cart.changed
  /\ \E i \in 1..Len(sends) : sends[i].st = "done" /\ sends[i].resp = "ok"
  /\ ~mutatedSince

\* C4: every addItem and every removeItem that finds its line starts, in the
\* same step, a sync attempt whose PUT carries the items and totalQuantity of
\* the cart that mutation produced, and every sync attempt eventually ends
\* with its success or error notification.
C4_MutationIsSynced ==
  /\ [][MutationStep =>
          /\ Len(sends') = Len(sends) + 1
          /\ sends'[Len(sends')].body = Doc(cart'.items, cart'.totalQuantity)
          /\ sends'[Len(sends')].st = "sent"]_vars
  /\ \A i \in 1..MaxSends : []<>(Len(sends) < i \/ AttemptEnded(i))

C4_Witness ==
  /\ Len(sends) = 2
  /\ \A i \in 1..2 : sends[i].st = "done"
  /\ lastAction.type = "removeItem"
  /\ lastAction.existed

\* C5: the cart update of the initial load's replaceCart never starts a sync
\* attempt.
C5_ReplaceNeverWrites == [][ReplaceStep => sends' = sends]_vars

\* C6: a sync attempt dispatches pending before it issues its PUT, and once
\* the request has completed exactly one more notification: success for an ok
\* response, error otherwise.
C6_SendNotificationOrder ==
  \A i \in 1..Len(sends) :
    /\ sends[i].st \in {"sent", "served"} =>
         sends[i].trace = <<"pending", "PUT">>
    /\ sends[i].st = "done" =>
         sends[i].trace =
           <<"pending", "PUT",
             IF sends[i].resp = "ok" THEN "success" ELSE "error">>

C6_Witness ==
  \E i, j \in 1..Len(sends) :
    /\ sends[i].st = "done" /\ sends[i].resp = "ok"
    /\ sends[j].st = "done" /\ sends[j].resp = "failed"

\* C7: when the initial read fails, the flow dispatches the error notification
\* and nothing before it (no pending, no replaceCart), and the cart is left as
\* it was.
C7_FailedReadLeavesCart ==
  [][loadSt = "sent" /\ loadResp'.kind = "failed" =>
       /\ loadSt' = "failed"
       /\ cart' = cart
       /\ notification' = FetchErrorNote
       /\ loadTrace' = <<"GET", "error">>
       /\ sends' = sends]_vars

C7_Witness ==
  /\ loadSt = "failed"
  /\ loadResp.kind = "failed"
  /\ cart.totalQuantity > 0
  /\ notification = FetchErrorNote

\* C8: whenever the initial read completes with a success response,
\* replaceCart is dispatched, the cart gets the returned items (none when the
\* data has none) and totalQuantity, and no error notification is dispatched.
C8_OkReadReplacesCart ==
  [][loadSt = "served" /\ loadResp.kind = "ok" /\ loadSt' # loadSt =>
       /\ loadSt' = "replaced"
       /\ cart'.items = ItemsOrEmpty(loadResp.body)
       /\ cart'.totalQuantity = loadResp.body.totalQuantity
       /\ loadTrace' = <<"GET", "replaceCart">>]_vars

\* C9: removeItem(id) on a cart with no line of that id leaves items,
\* totalQuantity and changed as they were.
C9_RemoveMissingIsNoOp ==
  [][/\ dispatched' = dispatched + 1
     /\ lastAction'.type = "removeItem"
     /\ ~HasLine(cart.items, lastAction'.id)
     => cart' = cart]_vars

C9_Witness ==
  /\ lastAction.type = "removeItem"
  /\ ~lastAction.existed
  /\ cart.totalQuantity > 0
  /\ ~cart.changed

\* C10: replaceCart sets items and totalQuantity to the payload's, whatever
\* the cart was, and leaves changed as it was.
C10_ReplaceCartOverwrites ==
  [][ReplaceStep =>
       /\ cart'.items = ItemsOrEmpty(loadResp.body)
       /\ cart'.totalQuantity = loadResp.body.totalQuantity
       /\ cart'.changed = cart.changed]_vars

C10_Witness ==
  /\ loadSt = "replaced"
  /\ lastAction.type = "replaceCart"
  /\ cart.changed
  /\ cart.items # <<>>

\* C11: for every cart s and every payload whose id has no line in s, addItem
\* followed by removeItem of that id gives back the items (same lines, same
\* order) and the totalQuantity of s.  Checked for every reachable cart, those
\* loaded by replaceCart included.
C11_AddThenRemoveRestores ==
  \A item \in Payloads :
    ~HasLine(cart.items, item.id) =>
      LET back == removeItem(addItem(cart, item), item.id) IN
      /\ back.items = cart.items
      /\ back.totalQuantity = cart.totalQuantity

\* the cart was loaded, p1 was added and removed again: the loaded cart is back
C11_Witness ==
  /\ loadSt = "replaced"
  /\ dispatched = 2
  /\ lastAction = [type |-> "removeItem", id |-> "p1", existed |-> TRUE]
  /\ cart.items = <<Line("p2", PriceP1, 2, "Product 2 (old)")>>
  /\ cart.totalQuantity = 2

\* C12: in every reachable state the ids of the lines are pairwise distinct,
\* every line has quantity >= 1 and totalQuantity is an integer >= 0.
C12_CartWellFormed ==
  /\ \A j, k \in 1..Len(cart.items) :
       cart.items[j].id = cart.items[k].id => j = k
  /\ \A k \in 1..Len(cart.items) : cart.items[k].quantity >= 1
  /\ cart.totalQuantity \in Nat

\* a loaded line of quantity 2 was decremented to 1 and then removed
C12_Witness ==
  /\ loadSt = "replaced"
  /\ dispatched = 2
  /\ lastAction = [type |-> "removeItem", id |-> "p2", existed |-> TRUE]
  /\ cart.items = <<>>
  /\ cart.totalQuantity = 0

\* The changes of notification status the claim lists.
ListedStatusChanges ==
  { <<"absent", "pending">>, <<"pending", "success">>, <<"pending", "error">>,
    <<"success", "pending">>, <<"error", "pending">> }

\* The further changes the code makes: the initial load's error without a
\* pending before it, and the outcome of one attempt replacing the outcome of
\* another (or of the initial load).
FurtherStatusChanges ==
  { <<"absent", "error">>, <<"success", "error">>, <<"error", "success">> }

StatusChange == <<notification.status, notification'.status>>

\* C13 as stated: every change of the notification status is one of the
\* listed ones (success and error are entered from pending only; absent is
\* never entered).
C13_ListedStatusChangesOnly ==
  [][notification'.status # notification.status =>
       StatusChange \in ListedStatusChanges]_vars

\* C13 amended: every change of the notification status is a listed one,
\* absent to error, success to error or error to success; the status never
\* returns to absent and success is never entered from absent.
C13_StatusChanges ==
  [][notification'.status # notification.status =>
       StatusChange \in ListedStatusChanges \cup FurtherStatusChanges]_vars

\* the initial load failed before any attempt was started: error was entered
\* from absent
C13_Witness ==
  /\ loadSt = "failed"
  /\ sends = <<>>
  /\ notification = FetchErrorNote

\* This step runs the sync effect: at mount, and after every dispatch that
\* produced a new cart object.
EffectStep ==
  \/ ~mounted /\ mounted'
  \/ ReplaceStep
  \/ MutationStep

\* C14: when the sync effect runs on a cart whose changed flag is false, it
\* issues no write request and dispatches no notification.
C14_UnchangedCartIsNotSent ==
  [][EffectStep /\ ~cart'.changed =>
       /\ sends' = sends
       /\ notification' = notification]_vars

\* the effect has run twice on an unchanged cart: at mount and after a
\* replaceCart that loaded a line
C14_Witness ==
  /\ loadSt = "replaced"
  /\ ~isInitial
  /\ ~cart.changed
  /\ cart.items # <<>>
  /\ sends = <<>>
  /\ notification = NoNotification

\* Attempt i fails in this step.
FailStep(i) ==
  /\ i <= Len(sends)
  /\ sends[i].st = "sent"
  /\ sends'[i].st = "done"
  /\ sends'[i].resp = "failed"

\* C15: when a sync write fails the cart is left as it was and no write
\* request is issued; a write request is only ever issued by a step that
\* updates the cart.
C15_FailedWriteIsFinal ==
  [][/\ \A i \in 1..MaxSends :
          FailStep(i) => cart' = cart /\ Len(sends') = Len(sends)
     /\ Len(sends') # Len(sends) =>
          /\ Len(sends') = Len(sends) + 1
          /\ ReplaceStep \/ MutationStep]_vars

\* the only attempt has failed, the mutated cart is kept and nothing is in
\* flight
C15_Witness ==
  /\ Len(sends) = 1
  /\ sends[1].st = "done"
  /\ sends[1].resp = "failed"
  /\ cart.changed
  /\ cart.totalQuantity > 0
  /\ notification = SendErrorNote

\* C16: the body of every write request is the items and totalQuantity of the
\* cart the effect ran on, without the changed flag; it stays what it was when
\* the request was issued, and when the remote store answers the request with
\* success its document is that body.
C16_WriteBodyIsSnapshot ==
  [][/\ Len(sends') = Len(sends) + 1 =>
          LET body == sends'[Len(sends')].body IN
          /\ body = Doc(cart'.items, cart'.totalQuantity)
          /\ "changed" \notin DOMAIN body
     /\ \A i \in 1..Len(sends) :
          /\ i <= Len(sends')
          /\ sends'[i].body = sends[i].body
          /\ sends[i].st = "sent" /\ sends'[i].st = "served" =>
               remote' = sends[i].body]_vars

\* the cart has moved on while an earlier request, just answered, carried the
\* cart of its own effect run
C16_Witness ==
  /\ Len(sends) = 2
  /\ sends[1].st = "served"
  /\ sends[2].st = "sent"
  /\ remote = sends[1].body
  /\ sends[1].body # sends[2].body
  /\ sends[2].body = Doc(cart.items, cart.totalQuantity)

\* No request is in flight: the initial load has ended and so has every sync
\* attempt.
Quiescent ==
  /\ loadSt \in {"replaced", "failed"}
  /\ \A i \in 1..Len(sends) : sends[i].st = "done"

\* C17: when at least one write was made, all writes have succeeded and no
\* request is in flight, the remote document has the items and totalQuantity
\* of the local cart.
C17_QuiescentRemoteIsLocal ==
  ( /\ Quiescent
    /\ sends # <<>>
    /\ \A i \in 1..Len(sends) : sends[i].resp = "ok" )
  => /\ ~remote.isNull
     /\ ItemsOrEmpty(remote) = cart.items
     /\ remote.totalQuantity = cart.totalQuantity

\* C18: a line added while the initial read was in flight is still in the
\* cart after the read has completed and replaceCart was applied.  (The GET
\* is issued at mount, before any click, so every line of the cart before
\* replaceCart was added while the read was in flight.)
C18_LoadKeepsAddedLines ==
  [][ReplaceStep =>
       \A id \in Ids : HasLine(cart.items, id) => HasLine(cart'.items, id)]_vars

\* A sync write is in flight: issued, and its attempt has not resumed yet.
WriteInFlight == \E i \in 1..Len(sends) : sends[i].st \in {"sent", "served"}

\* C19: whenever a sync write is in flight the notification status is pending.
C19_PendingWhileInFlight ==
  WriteInFlight => notification.status = "pending"

\* The payload the components dispatch for an id.
PayloadOf(id) == CHOOSE item \in Payloads : item.id = id

\* C20: addItem increments totalQuantity by 1 and sets changed, whatever
\* quantity the payload carries; with no line of the payload's id it appends
\* {id, name = title, price, quantity = 1, totalPrice = price}; with a line it
\* increments that line's quantity and keeps its id, price and name; all other
\* lines and the order of the lines are unchanged.
C20_AddItemEffect ==
  [][dispatched' = dispatched + 1 /\ lastAction'.type = "addItem" =>
       LET item == PayloadOf(lastAction'.id) IN
       /\ cart'.totalQuantity = cart.totalQuantity + 1
       /\ cart'.changed
       /\ IF ~HasLine(cart.items, item.id)
            THEN cart'.items =
                   Append(cart.items,
                          [id |-> item.id, name |-> item.title,
                           price |-> item.price, quantity |-> 1,
                           totalPrice |-> item.price])
            ELSE /\ Len(cart'.items) = Len(cart.items)
                 /\ \A k \in 1..Len(cart.items) :
                      IF cart.items[k].id = item.id
                        THEN /\ cart'.items[k].id = item.id
                             /\ cart'.items[k].quantity =
                                  cart.items[k].quantity + 1
                             /\ cart'.items[k].price = cart.items[k].price
                             /\ cart'.items[k].name = cart.items[k].name
                        ELSE cart'.items[k] = cart.items[k]]_vars

\* p2 was loaded with an older price and name, p1 was appended after it, and
\* a repeat addItem for p2 (payload price 10, quantity 3) kept the stored
\* price and name
C20_Witness ==
  /\ dispatched = 2
  /\ lastAction = [type |-> "addItem", id |-> "p2", existed |-> TRUE]
  /\ Len(cart.items) = 2
  /\ cart.items[1].id = "p2"
  /\ cart.items[1].quantity = 3
  /\ cart.items[1].price = PriceP1
  /\ cart.items[1].name = "Product 2 (old)"
  /\ cart.items[2] = Line("p1", PriceP1, 1, "Product 1")
  /\ cart.totalQuantity = 4

\* The lines of items without position k.
WithoutLine(items, k) ==
  SubSeq(items, 1, k - 1) \o SubSeq(items, k + 1, Len(items))

\* C21: removeItem(id) on a cart with a line of that id decrements
\* totalQuantity by 1 and sets changed; a line of quantity 1 is deleted,
\* otherwise its quantity goes down by 1 and its totalPrice by the line's
\* stored price; all other lines and their order are unchanged.
C21_RemoveItemEffect ==
  [][/\ dispatched' = dispatched + 1
     /\ lastAction'.type = "removeItem"
     /\ HasLine(cart.items, lastAction'.id)
     => \E k \in 1..Len(cart.items) :
          /\ cart.items[k].id = lastAction'.id
          /\ cart'.totalQuantity = cart.totalQuantity - 1
          /\ cart'.changed
          /\ IF cart.items[k].quantity = 1
               THEN cart'.items = WithoutLine(cart.items, k)
               ELSE cart'.items =
                      [cart.items EXCEPT
                         ![k] = [id |-> cart.items[k].id,
                                 name |-> cart.items[k].name,
                                 price |-> cart.items[k].price,
                                 quantity |-> cart.items[k].quantity - 1,
                                 totalPrice |-> cart.items[k].totalPrice
                                                  - cart.items[k].price]]]_vars

\* p2 was loaded with quantity 2, p1 was added after it, and removeItem(p2)
\* decremented the p2 line in place
C21_Witness ==
  /\ dispatched = 2
  /\ lastAction = [type |-> "removeItem", id |-> "p2", existed |-> TRUE]
  /\ cart.items = << Line("p2", PriceP1, 1, "Product 2 (old)"),
                     Line("p1", PriceP1, 1, "Product 1") >>
  /\ cart.totalQuantity = 2
  /\ cart.changed

\* This step dispatches showNotification outside the sync effect: an attempt
\* resumes with its success or error, or the initial load with its error.
NotificationStep ==
  \/ \E i \in 1..Len(sends) :
       /\ i <= Len(sends')
       /\ sends[i].st # "done"
       /\ sends'[i].st = "done"
  \/ loadSt # "failed" /\ loadSt' = "failed"

\* C22: a step that only dispatches a notification (an attempt or the initial
\* load resuming) leaves the cart as it was and starts no attempt; no step
\* starts more than one attempt; once no request is in flight, only a user
\* dispatch starts another; and the system ends up with no request in flight
\* for good.
C22_NotificationsTriggerNothing ==
  /\ [][NotificationStep =>
          cart' = cart /\ Len(sends') = Len(sends)]_vars
  /\ [][Len(sends') <= Len(sends) + 1]_vars
  /\ [][Quiescent /\ dispatched' = dispatched =>
          Len(sends') = Len(sends) /\ Quiescent']_vars
  /\ <>[]Quiescent

\* two mutations were synced, both attempts have ended and nothing is in
\* flight
C22_Witness ==
  /\ Quiescent
  /\ dispatched = 2
  /\ Len(sends) = 2
  /\ notification.status \in {"success", "error"}
  /\ cart.changed

====
